---- MODULE Spec2Model ----
(***************************************************************************)
(* Model of cron_script.py: the scheduled maintenance script that changes  *)
(* into the repository directory, evicts an expired .garmin_session.json,  *)
(* prunes stale output files and invokes the garmin collector with         *)
(* yesterday's date.                                                       *)
(*                                                                         *)
(* Time is measured in ticks (TicksPerSec ticks per second), so that       *)
(* time.time() (a float) can fall strictly between two whole seconds.      *)
(* Instants are counted from 00:00 UTC of the date Origin rather than from *)
(* 1970-01-01, which keeps every number within TLC's 32-bit integers; the  *)
(* program only compares and subtracts instants, so the origin is free.    *)
(* Paths and extensions are sequences of one-character strings so that    *)
(* os.path.splitext can be computed as the library does.   *)
(* A JSON number is held in ticks too, so that it can have a fraction.     *)
(* open(), chdir() and the start of the collector can fail; the other      *)
(* file-system calls are taken to succeed, and the collector is an opaque  *)
(* process that leaves the modelled files alone.                           *)
(***************************************************************************)
EXTENDS Integers, Sequences, FiniteSets, TLC

(***************************************************************************)
(* Bounds of the model.                                                    *)
(***************************************************************************)
TicksPerSec == 2
MaxDelay == 1
MaxRuns == 2

(***************************************************************************)
(* Program constants.                                                      *)
(***************************************************************************)
TzHours == 5
YesterdayDays == 1

SecPerHour == 60 * 60
SecPerDay == 24 * SecPerHour
Sec(s) == s * TicksPerSec
Hours(h) == Sec(h * SecPerHour)
TicksPerDay == Sec(SecPerDay)

\* tz = datetime.timezone(-timedelta(hours=5)): the utcoffset, in ticks
tz == 0 - Hours(TzHours)

(***************************************************************************)
(* The proleptic Gregorian calendar of datetime.date.                      *)
(***************************************************************************)
DaysInMonthTable == <<31, 28, 31, 30, 31, 30, 31, 31, 30, 31, 30, 31>>
DaysBeforeMonthTable == <<0, 31, 59, 90, 120, 151, 181, 212, 243, 273, 304, 334>>

IsLeap(y) == y % 4 = 0 /\ (y % 100 # 0 \/ y % 400 = 0)

DaysBeforeYear(y) ==
    (y - 1) * 365 + (y - 1) \div 4 - (y - 1) \div 100 + (y - 1) \div 400

DaysBeforeMonth(y, m) ==
    DaysBeforeMonthTable[m] + (IF m > 2 /\ IsLeap(y) THEN 1 ELSE 0)

\* date.toordinal(): 1 for 0001-01-01
Ymd2Ord(d) == DaysBeforeYear(d.y) + DaysBeforeMonth(d.y, d.m) + d.d

DI4Y == 4 * 365 + 1
DI100Y == 25 * DI4Y - 1
DI400Y == 4 * DI100Y + 1

\* date.fromordinal()
Ord2Ymd(ord) ==
    LET n0 == ord - 1
        n400 == n0 \div DI400Y
        na == n0 % DI400Y
        n100 == na \div DI100Y
        nb == na % DI100Y
        n4 == nb \div DI4Y
        nc == nb % DI4Y
        n1 == nc \div 365
        n == nc % 365
        year == n400 * 400 + 1 + n100 * 100 + n4 * 4 + n1
        leapyear == n1 = 3 /\ (n4 # 24 \/ n100 = 3)
        month0 == (n + 50) \div 32
        prec0 == DaysBeforeMonthTable[month0]
                   + (IF month0 > 2 /\ leapyear THEN 1 ELSE 0)
        month == IF prec0 > n THEN month0 - 1 ELSE month0
        prec == IF prec0 > n
                THEN prec0 - (DaysInMonthTable[month]
                               + (IF month = 2 /\ leapyear THEN 1 ELSE 0))
                ELSE prec0
    IN  IF n1 = 4 \/ n100 = 4
        THEN [y |-> year - 1, m |-> 12, d |-> 31]
        ELSE [y |-> year, m |-> month, d |-> n - prec + 1]

\* the date whose 00:00 UTC is instant 0, and its ordinal
Origin == [y |-> 2023, m |-> 12, d |-> 1]
OriginOrdinal == Ymd2Ord(Origin)

\* date.today(): the calendar date of instant t on a host whose local time
\* is hostOffset ticks ahead of UTC
Today(t, hostOffset) == Ord2Ymd(OriginOrdinal + ((t + hostOffset) \div TicksPerDay))

\* variant: the day field decremented without borrowing from the month
DateMinusDaysNoBorrow(d, n) == [d EXCEPT !.d = d.d - n]

\* date - timedelta(days=n)
DateMinusDays(d, n) == Ord2Ymd(Ymd2Ord(d) - n)

Digit(i) == <<"0", "1", "2", "3", "4", "5", "6", "7", "8", "9">>[i + 1]
Pad2(n) == Digit((n \div 10) % 10) \o Digit(n % 10)
Pad4(n) == Pad2((n \div 100) % 100) \o Pad2(n % 100)

\* f"{yesterday}": date.__str__ is isoformat()
IsoFormat(d) == Pad4(d.y) \o "-" \o Pad2(d.m) \o "-" \o Pad2(d.d)

(***************************************************************************)
(* Aware datetimes: wall-clock ticks since the epoch together with the     *)
(* utcoffset of their tzinfo.                                              *)
(***************************************************************************)
\* datetime.datetime.combine(d, datetime.time(0, 0, 0, 0, tz), tzinfo=tz)
CombineMidnight(d, off) ==
    [wall |-> (Ymd2Ord(d) - OriginOrdinal) * TicksPerDay, off |-> off]

\* datetime.datetime.fromtimestamp(timestamp, tz=tz)
FromTimestamp(ts, off) == [wall |-> ts + off, off |-> off]

\* the POSIX timestamp an aware datetime stands for
Instant(dt) == dt.wall - dt.off

\* variant: the comparison written as <=
DtLessOrEqual(a, b) == Instant(a) <= Instant(b)

\* creation_date < midnight, on aware datetimes
DtLess(a, b) == Instant(a) < Instant(b)

(***************************************************************************)
(* Paths.                                                                  *)
(***************************************************************************)
RECURSIVE RFind(_, _, _)
\* p.rfind(c) over positions 1..i; 0 when absent
RFind(p, c, i) == IF i = 0 THEN 0
                  ELSE IF p[i] = c THEN i ELSE RFind(p, c, i - 1)

\* os.path.splitext(p)[1] (genericpath._splitext)
SplitExt(p) ==
    LET sepIndex == RFind(p, "/", Len(p))
        dotIndex == RFind(p, ".", Len(p))
    IN  IF dotIndex > sepIndex
           /\ \E k \in (sepIndex + 1)..(dotIndex - 1) : p[k] # "."
        THEN SubSeq(p, dotIndex, Len(p))
        ELSE <<>>

\* whether os.walk(base) yields path p: p lies below directory base
Under(p, base) ==
    /\ Len(p) > Len(base) + 1
    /\ SubSeq(p, 1, Len(base)) = base
    /\ p[Len(base) + 1] = "/"


(***************************************************************************)
(* The environment the script is launched in.                              *)
(***************************************************************************)
HomeDir == "/home/user"
RepoDir == "/home/user/garmin"
NoDir == "/nonexistent"
Dirs == {HomeDir, RepoDir}

\* (working directory, sys.argv[1:]) of a launch
Launches ==
    { [cwd |-> HomeDir, argv |-> <<RepoDir>>],
      [cwd |-> RepoDir, argv |-> <<>>],
      [cwd |-> HomeDir, argv |-> <<>>],
      [cwd |-> HomeDir, argv |-> <<NoDir>>] }

\* UTC offsets of the host's local time zone, in hours
HostOffsetHours == {0 - 8, 0 - 5, 0}

\* days from Origin to 2024-03-15, 2024-03-01 and 2024-01-01
DMar15 == Ymd2Ord([y |-> 2024, m |-> 3, d |-> 15]) - OriginOrdinal
DMar01 == Ymd2Ord([y |-> 2024, m |-> 3, d |-> 1]) - OriginOrdinal
DJan01 == Ymd2Ord([y |-> 2024, m |-> 1, d |-> 1]) - OriginOrdinal

\* 00:00 of 2024-03-15 at UTC-5, as an instant
M15 == DMar15 * TicksPerDay + Hours(TzHours)

\* instants at which a run may start
Nows ==
    { DMar15 * TicksPerDay + Hours(10),
      DMar15 * TicksPerDay + Hours(2),
      M15 + TicksPerDay - 1,
      DMar01 * TicksPerDay + Hours(10),
      DJan01 * TicksPerDay + Hours(10) }

\* the first instant of Nows, a whole second
NowA == DMar15 * TicksPerDay + Hours(10)

\* contents of .garmin_session.json in the repository directory; expires_at
\* is a JSON number: whole seconds around NowA, and one with a fraction
Sessions ==
    { [kind |-> "absent"], [kind |-> "malformed"], [kind |-> "nofield"] }
    \cup { [kind |-> "valid", expires_at |-> e] :
             e \in {NowA - Sec(1), NowA, NowA + 1, NowA + Sec(1)} }

OutDir == <<"o">>
ExtF == <<".", "f">>
ExtG == <<".", "g">>

\* contents of config/influxdb_config.json in the repository directory
Configs ==
    { [kind |-> "missing"], [kind |-> "malformed"] }
    \cup { [kind |-> "ok", file_base_path |-> OutDir, files_to_prune |-> x] :
             x \in {{ExtF}, {ExtF, ExtG}} }

\* the files of the model, within and outside the output directory
AllPaths ==
    << <<"o", "/", "a", ".", "f">>,
       <<"o", "/", "d", "/", "c", ".", "g">>,
       <<"o", "/", "a", ".", "F">>,
       <<"o", "/", "d", "/", ".", "f">>,
       <<"o", "/", "d", ".", "f", "/", "b">>,
       <<"x", ".", "f">> >>

\* change times the files may carry
Ctimes == << M15 - Sec(1), M15, M15 + Sec(1), M15 - 1 >>

\* file system r: file i carries change time i + r (cyclically) of Ctimes
FileSystem(r) ==
    { [path |-> AllPaths[i], ctime |-> Ctimes[((i + r) % Len(Ctimes)) + 1]] :
        i \in 1..Len(AllPaths) }

Delays == 0..MaxDelay

NoDatetime == [wall |-> 0, off |-> 0]
Steps == <<"chdir", "evict", "prune", "invoke">>

(***************************************************************************)
(* State.                                                                  *)
(***************************************************************************)
VARIABLES
    pc,             \* position of the script
    run,            \* number of the current launch
    launch,         \* how the script was launched
    now,            \* the clock
    hostOff,        \* utcoffset of the host's local time, in ticks
    cwd,            \* the process's working directory
    session,        \* .garmin_session.json in RepoDir
    configFile,     \* config/influxdb_config.json in RepoDir
    config,         \* the loaded configuration
    files,          \* every regular file, with its change time
    midnight,       \* the reference datetime of the sweep
    pending,        \* files os.walk has yet to yield
    exe,            \* the argument vector
    output,         \* the CompletedProcess: exit status, or "none"
    printed,        \* whether output.stdout was printed
    error,          \* the unhandled exception that ended the run
    steps,          \* steps entered in this run, in order
    evictAt,        \* what time.time() returned to the evictor
    invocations,    \* subprocess.run calls of this run
    atLaunch,       \* session file and files when this run was launched
    prev            \* the previous run's sweep: files before and after,
                    \* and its reference

vars == << pc, run, launch, now, hostOff, cwd, session, configFile, config,
           files, midnight, pending, exe, output, printed, error, steps,
           evictAt, invocations, atLaunch, prev >>

NoPrev == [swept |-> FALSE, before |-> {}, files |-> {}, midnight |-> NoDatetime]

Init ==
    /\ pc = "chdir"
    /\ run = 1
    /\ launch \in Launches
    /\ now \in Nows
    /\ hostOff \in {Hours(h) : h \in HostOffsetHours}
    /\ cwd = launch.cwd
    /\ session \in Sessions
    /\ configFile \in Configs
    /\ config = [kind |-> "none"]
    /\ files \in {FileSystem(r) : r \in 1..Len(Ctimes)}
    /\ midnight = NoDatetime
    /\ pending = {}
    /\ exe = <<>>
    /\ output = "none"
    /\ printed = FALSE
    /\ error = "none"
    /\ steps = <<>>
    /\ evictAt = 0
    /\ invocations = 0
    /\ atLaunch = [session |-> session, files |-> files]
    /\ prev = NoPrev

\* open(".garmin_session.json") resolves against the working directory
SessionAt(dir) == IF dir = RepoDir THEN session ELSE [kind |-> "absent"]

\* variant: the configuration opened by the repository's absolute path
ConfigAtAbsolute(dir) == configFile

\* open(os.path.join(os.getcwd(), "config", "influxdb_config.json"))
ConfigAt(dir) == IF dir = RepoDir THEN configFile ELSE [kind |-> "missing"]

(***************************************************************************)
(* Decisions of the script.                                                *)
(***************************************************************************)
\* int(x) of a number x: the whole seconds of x, truncated towards zero
IntOf(x) == IF x >= 0 THEN x \div TicksPerSec ELSE 0 - ((0 - x) \div TicksPerSec)

\* variant: the comparison written as >=
ExpiredOrEqual(t, expires_at) == t >= Sec(IntOf(expires_at))

\* time.time() > int(contents['expires_at'])
Expired(t, expires_at) == t > Sec(IntOf(expires_at))

\* variant: no except clause for FileNotFoundError
EvictOutcomeNoExcept(s, t) ==
    CASE s.kind = "absent" -> "raise"
      [] s.kind = "malformed" -> "raise"
      [] s.kind = "nofield" -> "raise"
      [] s.kind = "valid" ->
            IF Expired(t, s.expires_at) THEN "remove" ELSE "keep"

\* variant: the except clause also catches ValueError and KeyError
EvictOutcomeBroadExcept(s, t) ==
    CASE s.kind = "absent" -> "pass"
      [] s.kind = "malformed" -> "pass"
      [] s.kind = "nofield" -> "pass"
      [] s.kind = "valid" ->
            IF Expired(t, s.expires_at) THEN "remove" ELSE "keep"

\* what the try block of the evictor does with session file s at time t
EvictOutcome(s, t) ==
    CASE s.kind = "absent" -> "pass"
      [] s.kind = "malformed" -> "raise"
      [] s.kind = "nofield" -> "raise"
      [] s.kind = "valid" ->
            IF Expired(t, s.expires_at) THEN "remove" ELSE "keep"

\* json.load of the configuration file: whether it returns
ConfigLoads(c) == c.kind = "ok"

\* midnight = datetime.datetime.combine(date.today(), time(0, 0, 0, 0, tz), tzinfo=tz)
Midnight(t, hostOffset) == CombineMidnight(Today(t, hostOffset), tz)

\* creation_date < midnight and ext in config["files_to_prune"]
ShouldPrune(timestamp, ref, filename, files_to_prune) ==
    /\ DtLess(FromTimestamp(timestamp, tz), ref)
    /\ SplitExt(filename) \in files_to_prune

\* os.path.join(os.getcwd(), "target", "debug", "garmin")
ExePath(dir) == dir \o "/" \o "target" \o "/" \o "debug" \o "/" \o "garmin"

\* keys of the options dict, in insertion order
Options ==
    << "--summary_date", "--weight_date", "--sleep_date",
       "--resting_heart_date", "--monitor_date", "--hydration_date",
       "--activity_date" >>

RECURSIVE AppendOptions(_, _, _)
\* for metric, dt in options.items(): exe.append(metric); exe.append(dt)
AppendOptions(vec, k, dt) ==
    IF k > Len(Options) THEN vec
    ELSE AppendOptions(Append(Append(vec, Options[k]), dt), k + 1, dt)

\* the argument vector built for a run in directory dir on date today
Command(dir, today) ==
    AppendOptions(<<ExePath(dir)>>, 1,
                  IsoFormat(DateMinusDays(today, YesterdayDays)))

\* variant: subprocess.run(exe, capture_output=True, check=True)
RunRaisesChecked(status) == status # "exit0"

\* subprocess.run(exe, capture_output=True): whether an exit status of the
\* child makes the call raise
RunRaises(status) == FALSE

(***************************************************************************)
(* Steps of the script.                                                    *)
(***************************************************************************)
Abort(cause) ==
    /\ pc' = "aborted"
    /\ error' = cause

\* lines 17-18
Chdir ==
    /\ pc = "chdir"
    /\ steps' = Append(steps, "chdir")
    /\ IF Len(launch.argv) > 0
       THEN IF launch.argv[1] \in Dirs
            THEN /\ cwd' = launch.argv[1]
                 /\ pc' = "evict"
                 /\ error' = error
            ELSE /\ Abort("chdir")
                 /\ cwd' = cwd
       ELSE /\ cwd' = cwd
            /\ pc' = "evict"
            /\ error' = error
    /\ UNCHANGED << run, launch, now, hostOff, session, configFile, config,
                    files, midnight, pending, exe, output, printed,
                    evictAt, invocations, atLaunch, prev >>

\* lines 21-30
Evict ==
    /\ pc = "evict"
    /\ steps' = Append(steps, "evict")
    /\ \E dt \in Delays :
         /\ now' = now + dt
         /\ evictAt' = now'
         /\ LET o == EvictOutcome(SessionAt(cwd), now')
            IN  /\ IF o = "raise"
                   THEN Abort("session")
                   ELSE pc' = "config" /\ error' = error
                /\ IF o = "remove"
                   THEN session' = [kind |-> "absent"]
                   ELSE session' = session
    /\ UNCHANGED << run, launch, hostOff, cwd, configFile, config, files,
                    midnight, pending, exe, output, printed, invocations,
                    atLaunch, prev >>

\* lines 38-40
LoadConfig ==
    /\ pc = "config"
    /\ steps' = Append(steps, "prune")
    /\ IF ConfigLoads(ConfigAt(cwd))
       THEN /\ config' = ConfigAt(cwd)
            /\ pc' = "walk"
            /\ error' = error
       ELSE /\ Abort("config")
            /\ config' = config
    /\ UNCHANGED << run, launch, now, hostOff, cwd, session, configFile,
                    files, midnight, pending, exe, output, printed,
                    evictAt, invocations, atLaunch, prev >>

\* lines 43-47
StartSweep ==
    /\ pc = "walk"
    /\ \E dt \in Delays :
         /\ now' = now + dt
         /\ midnight' = Midnight(now', hostOff)
    /\ pending' = {f.path : f \in {g \in files : Under(g.path, config.file_base_path)}}
    /\ pc' = "sweep"
    /\ UNCHANGED << run, launch, hostOff, cwd, session, configFile, config,
                    files, exe, output, printed, error, steps, evictAt,
                    invocations, atLaunch, prev >>

\* variant: a removal makes the iteration skip the entry that follows
PruneFileSkipping ==
    /\ pc = "sweep"
    /\ \E filename \in pending :
         LET f == CHOOSE g \in files : g.path = filename
         IN  IF ShouldPrune(f.ctime, midnight, filename, config.files_to_prune)
             THEN /\ files' = files \ {f}
                  /\ \E skipped \in pending :
                       pending' = pending \ {filename, skipped}
             ELSE /\ files' = files
                  /\ pending' = pending \ {filename}
    /\ UNCHANGED << pc, run, launch, now, hostOff, cwd, session, configFile,
                    config, midnight, exe, output, printed, error, steps,
                    evictAt, invocations, atLaunch, prev >>

\* lines 48-56, for one file; the order of a directory listing is the
\* operating system's
PruneFile ==
    /\ pc = "sweep"
    /\ \E filename \in pending :
         LET f == CHOOSE g \in files : g.path = filename
         IN  /\ pending' = pending \ {filename}
             /\ IF ShouldPrune(f.ctime, midnight, filename, config.files_to_prune)
                THEN files' = files \ {f}
                ELSE files' = files
    /\ UNCHANGED << pc, run, launch, now, hostOff, cwd, session, configFile,
                    config, midnight, exe, output, printed, error, steps,
                    evictAt, invocations, atLaunch, prev >>

\* variant: lines 59-76 indented into the loop over the files
BuildCommandInLoop ==
    /\ pc = "sweep"
    /\ steps' = Append(steps, "invoke")
    /\ \E dt \in Delays :
         /\ now' = now + dt
         /\ exe' = Command(cwd, Today(now', hostOff))
    /\ pc' = "invoke"
    /\ UNCHANGED << run, launch, hostOff, cwd, session, configFile, config,
                    files, midnight, pending, output, printed, error,
                    evictAt, invocations, atLaunch, prev >>

\* lines 59-73
BuildCommand ==
    /\ pc = "sweep"
    /\ pending = {}
    /\ steps' = Append(steps, "invoke")
    /\ \E dt \in Delays :
         /\ now' = now + dt
         /\ exe' = Command(cwd, Today(now', hostOff))
    /\ pc' = "invoke"
    /\ UNCHANGED << run, launch, hostOff, cwd, session, configFile, config,
                    files, midnight, pending, output, printed, error,
                    evictAt, invocations, atLaunch, prev >>

\* lines 74-76; the collector exits with some status, or cannot be started
Invoke ==
    /\ pc = "invoke"
    /\ invocations' = invocations + 1
    /\ \E r \in {"exit0", "exit1", "nospawn"} :
         IF r = "nospawn"
         THEN /\ Abort("spawn")
              /\ UNCHANGED << output, printed >>
         ELSE /\ output' = r
              /\ IF RunRaises(r)
                 THEN /\ Abort("collector")
                      /\ printed' = printed
                 ELSE /\ printed' = TRUE
                      /\ pc' = "done"
                      /\ error' = error
    /\ UNCHANGED << run, launch, now, hostOff, cwd, session, configFile,
                    config, files, midnight, pending, exe, steps,
                    evictAt, atLaunch, prev >>

\* whether the current run carried its sweep to the end
Swept == Len(steps) = Len(Steps)

\* the scheduler launches the script again
Rerun ==
    /\ pc \in {"done", "aborted"}
    /\ run < MaxRuns
    /\ run' = run + 1
    /\ \E dt \in Delays : now' = now + dt
    /\ prev' = IF Swept
               THEN [swept |-> TRUE, before |-> atLaunch.files,
                     files |-> files, midnight |-> midnight]
               ELSE NoPrev
    /\ pc' = "chdir"
    /\ cwd' = launch.cwd
    /\ config' = [kind |-> "none"]
    /\ midnight' = NoDatetime
    /\ pending' = {}
    /\ exe' = <<>>
    /\ output' = "none"
    /\ printed' = FALSE
    /\ error' = "none"
    /\ steps' = <<>>
    /\ evictAt' = 0
    /\ invocations' = 0
    /\ atLaunch' = [session |-> session, files |-> files]
    /\ UNCHANGED << launch, hostOff, session, configFile, files >>

Next ==
    \/ Chdir
    \/ Evict
    \/ LoadConfig
    \/ StartSweep
    \/ PruneFile
    \/ BuildCommand
    \/ Invoke
    \/ Rerun

Spec == Init /\ [][Next]_vars

(***************************************************************************)
(* Vocabulary of the properties.                                           *)
(***************************************************************************)
\* the directory the run works in once past the normalizer
SessionSeen == IF cwd = RepoDir THEN atLaunch.session ELSE [kind |-> "absent"]

Evicted == Len(steps) >= 2
Terminal == pc \in {"done", "aborted"}
SessionRemoved == session # atLaunch.session
DeletedFiles == atLaunch.files \ files

\* the extension each path of the model has, dot included
ExtensionOf(p) ==
    CASE p = <<"o", "/", "a", ".", "f">> -> <<".", "f">>
      [] p = <<"o", "/", "d", "/", "c", ".", "g">> -> <<".", "g">>
      [] p = <<"o", "/", "a", ".", "F">> -> <<".", "F">>
      [] p = <<"o", "/", "d", "/", ".", "f">> -> <<>>
      [] p = <<"o", "/", "d", ".", "f", "/", "b">> -> <<>>
      [] p = <<"x", ".", "f">> -> <<".", "f">>

InOutputTree(p) == p[1] = "o" /\ p[2] = "/"

\* the instant of the reference the sweep compares against
Reference == midnight.wall - midnight.off

(***************************************************************************)
(* C1.  As claimed: when the session file exists and parses, the evictor   *)
(* deletes it if and only if the current time is greater than or equal to  *)
(* expires_at.                                                             *)
(***************************************************************************)
C1_DeletedIffNotBefore ==
    (Evicted /\ SessionSeen.kind = "valid") =>
        (SessionRemoved <=> evictAt >= SessionSeen.expires_at)

(***************************************************************************)
(* C1, amended.  When the session file exists and parses, the evictor      *)
(* deletes it if and only if the current time is strictly greater than     *)
(* expires_at, taken in whole seconds (a fraction is dropped): at the very *)
(* instant of expiry the file is retained, any fraction of a second later  *)
(* it is deleted, and with expires_at one second or more ahead it is       *)
(* retained.                                                               *)
(***************************************************************************)
WholeSeconds(x) == x - (x % TicksPerSec)

C1_DeletedIffAfter ==
    (Evicted /\ SessionSeen.kind = "valid") =>
        /\ SessionRemoved <=> evictAt > WholeSeconds(SessionSeen.expires_at)
        /\ SessionRemoved => session.kind = "absent"
        /\ pc # "aborted" \/ error # "session"

C1_Witness ==
    /\ Evicted
    /\ SessionSeen.kind = "valid"
    /\ evictAt = SessionSeen.expires_at
    /\ session = atLaunch.session

(***************************************************************************)
(* C2.  Once the sweep has ended, a file that was under file_base_path is  *)
(* gone if and only if its change time is strictly earlier than the        *)
(* reference and its extension is a member of files_to_prune; files        *)
(* outside file_base_path are all still there.  While the sweep runs,      *)
(* nothing else has been deleted.                                          *)
(***************************************************************************)
C2_PrunedIffOldAndListed ==
    /\ \A f \in DeletedFiles :
         /\ InOutputTree(f.path)
         /\ f.ctime < Reference
         /\ ExtensionOf(f.path) \in config.files_to_prune
    /\ Swept =>
         \A f \in atLaunch.files :
            (InOutputTree(f.path) /\ f.ctime < Reference
               /\ ExtensionOf(f.path) \in config.files_to_prune)
            => f \notin files

C2_Witness ==
    /\ Swept
    /\ \E f \in atLaunch.files :
         /\ f.ctime = Reference
         /\ ExtensionOf(f.path) \in config.files_to_prune
         /\ InOutputTree(f.path)
         /\ f \in files
    /\ \E f \in atLaunch.files :
         /\ f.ctime = Reference - TicksPerSec
         /\ ExtensionOf(f.path) \in config.files_to_prune
         /\ f \notin files
    /\ \E f \in atLaunch.files :
         /\ f.ctime < Reference
         /\ InOutputTree(f.path)
         /\ ExtensionOf(f.path) \notin config.files_to_prune
         /\ f \in files

(***************************************************************************)
(* C3.  As claimed: a run that aborts on the configuration file or on the  *)
(* chdir target has, at that moment, deleted no file, neither the session  *)
(* file nor an output file, and has not invoked the collector.             *)
(***************************************************************************)
C3_AbortWithoutSideEffects ==
    (pc = "aborted" /\ error \in {"config", "chdir"}) =>
        /\ session = atLaunch.session
        /\ files = atLaunch.files
        /\ invocations = 0

\* the directory the relative paths of this run resolve against
WorkDir == IF Len(launch.argv) > 0 THEN launch.argv[1] ELSE launch.cwd

ConfigUsable == WorkDir = RepoDir /\ configFile.kind = "ok"

(***************************************************************************)
(* C3, amended.  A run whose chdir target is invalid or whose              *)
(* configuration file is missing or malformed never starts the sweep: it   *)
(* aborts, and at every moment up to and including the abort no output     *)
(* file has been deleted and the collector has not been invoked.  With an  *)
(* invalid chdir target the session file is untouched as well; with a bad  *)
(* configuration file the evictor has already run, so an expired session   *)
(* file has already been deleted.                                          *)
(***************************************************************************)
C3_AbortBeforeSweep ==
    /\ ~ConfigUsable =>
         /\ pc \in {"chdir", "evict", "config", "aborted"}
         /\ files = atLaunch.files
         /\ invocations = 0
         /\ Len(steps) = 3 => (pc = "aborted" /\ error = "config")
    /\ WorkDir \notin Dirs =>
         /\ session = atLaunch.session
         /\ Len(steps) >= 1 => (pc = "aborted" /\ error = "chdir")

C3_Witness ==
    /\ pc = "aborted"
    /\ error = "config"
    /\ SessionRemoved
    /\ files = atLaunch.files

(***************************************************************************)
(* C4.  As claimed: a sweep that follows a completed sweep of the previous *)
(* run, with no file created in between, deletes nothing.                  *)
(***************************************************************************)
C4_SecondSweepDeletesNothing ==
    prev.swept => files = prev.files

(***************************************************************************)
(* C4, amended.  A sweep that follows a completed sweep of the previous    *)
(* run, with no file created in between, deletes nothing provided both     *)
(* runs compute the same midnight reference, that is, the host's local     *)
(* date has not changed between them.                                      *)
(***************************************************************************)
C4_SecondSweepSameReference ==
    (prev.swept /\ (pc \in {"chdir", "evict", "config", "walk"}
                      \/ midnight = prev.midnight))
        => files = prev.files

C4_Witness ==
    /\ prev.swept
    /\ prev.files # prev.before
    /\ Swept
    /\ midnight = prev.midnight
    /\ files = prev.files

\* the host-local day, counted from Origin, at the current clock reading
LocalDay == (now + hostOff) \div TicksPerDay

\* the date before each local day the runs of the model can fall on
DayBefore(day) ==
    CASE day = DMar15 - 1 -> "2024-03-13"
      [] day = DMar15 -> "2024-03-14"
      [] day = DMar15 + 1 -> "2024-03-15"
      [] day = DMar01 - 1 -> "2024-02-28"
      [] day = DMar01 -> "2024-02-29"
      [] day = DJan01 - 1 -> "2023-12-30"
      [] day = DJan01 -> "2023-12-31"

(***************************************************************************)
(* C5.  The argument vector, once built, is the executable path followed   *)
(* by --summary_date, --weight_date, --sleep_date, --resting_heart_date,   *)
(* --monitor_date, --hydration_date and --activity_date, in this order,    *)
(* each followed by the same string: the ISO date of the day before the    *)
(* host-local date at which the vector was built.                          *)
(***************************************************************************)
C5_ArgumentVector ==
    Swept =>
        exe = << "/home/user/garmin/target/debug/garmin",
                 "--summary_date", DayBefore(LocalDay),
                 "--weight_date", DayBefore(LocalDay),
                 "--sleep_date", DayBefore(LocalDay),
                 "--resting_heart_date", DayBefore(LocalDay),
                 "--monitor_date", DayBefore(LocalDay),
                 "--hydration_date", DayBefore(LocalDay),
                 "--activity_date", DayBefore(LocalDay) >>

C5_Witness ==
    /\ pc = "invoke"
    /\ LocalDay = DMar15
    /\ Len(exe) = 15
    /\ \A k \in 1..7 : exe[2 * k + 1] = "2024-03-14"

(***************************************************************************)
(* C6.  When the working directory holds no session file, the evictor      *)
(* raises nothing, deletes and creates nothing, and hands over to the      *)
(* configuration load of the pruner.                                       *)
(***************************************************************************)
C6_AbsentSessionTolerated ==
    (Evicted /\ SessionSeen.kind = "absent") =>
        /\ error # "session"
        /\ session = atLaunch.session
        /\ Len(steps) = 2 => (pc = "config" /\ files = atLaunch.files)

C6_Witness ==
    /\ SessionSeen.kind = "absent"
    /\ cwd = RepoDir
    /\ pc = "done"

RECURSIVE IsPrefix(_, _)
IsPrefix(a, b) ==
    \/ a = <<>>
    \/ /\ b # <<>>
       /\ Head(a) = Head(b)
       /\ IsPrefix(Tail(a), Tail(b))

StepOrder ==
    /\ IsPrefix(steps, Steps)
    /\ invocations > 0 => (Swept /\ pending = {})
    /\ files # atLaunch.files => Len(steps) >= 3
    /\ session # atLaunch.session => Len(steps) >= 2

(***************************************************************************)
(* C7.  As claimed: the steps run in the order normalizer, evictor,        *)
(* pruner, invoker, none starting before the previous one has finished,    *)
(* and every run executes all four whatever the outcome of each.           *)
(***************************************************************************)
C7_EveryStepUnconditional ==
    /\ StepOrder
    /\ Terminal => steps = Steps

(***************************************************************************)
(* C7, amended.  The steps run in the order normalizer, evictor, pruner,   *)
(* invoker, none starting before the previous one has finished: the        *)
(* collector is never invoked before the sweep has ended and no output     *)
(* file is deleted before the session file has been handled.  A step is    *)
(* executed whenever the previous one ended without an unhandled           *)
(* exception, whatever it did (session file removed, kept or absent,       *)
(* files pruned or not); an invalid chdir target, an unreadable session    *)
(* file or an unloadable configuration file ends the run there.            *)
(***************************************************************************)
C7_StepsInOrderUntilError ==
    /\ StepOrder
    /\ pc = "done" => steps = Steps
    /\ (Terminal /\ steps # Steps) =>
         /\ pc = "aborted"
         /\ error = CASE Len(steps) = 1 -> "chdir"
                      [] Len(steps) = 2 -> "session"
                      [] Len(steps) = 3 -> "config"
    /\ (pc = "aborted" /\ error = "chdir") => WorkDir \notin Dirs
    /\ (pc = "aborted" /\ error = "session") =>
          SessionSeen.kind \in {"malformed", "nofield"}
    /\ (pc = "aborted" /\ error = "config") => ~ConfigUsable

C7_Witness ==
    /\ pc = "done"
    /\ steps = Steps
    /\ SessionRemoved
    /\ DeletedFiles # {}
    /\ invocations = 1

(***************************************************************************)
(* C8.  Once the collector has been started and has exited, the script     *)
(* has printed the captured stdout and has finished normally, whether the  *)
(* exit status was zero or not; the collector is invoked once per run.     *)
(***************************************************************************)
C8_ExitStatusIgnored ==
    /\ invocations <= 1
    /\ output # "none" =>
         /\ pc = "done"
         /\ printed
         /\ error = "none"
         /\ invocations = 1

C8_Witness ==
    /\ output = "exit1"
    /\ pc = "done"
    /\ printed

(***************************************************************************)
(* C9.  The reference of the sweep is the start of the UTC-5 calendar day  *)
(* that contains the instant at which it was computed, whatever the        *)
(* host's time zone: it is a midnight of UTC-5, not later than that        *)
(* instant and less than 24 hours before it.                               *)
(***************************************************************************)
C9_ReferenceIsStartOfDay ==
    pc = "sweep" =>
        /\ (Reference - TzHours * SecPerHour * TicksPerSec) % TicksPerDay = 0
        /\ Reference <= now
        /\ now - Reference < TicksPerDay

(***************************************************************************)
(* C10.  A session file that is malformed JSON or lacks expires_at ends    *)
(* the run in the evictor: the session file stays, no output file is       *)
(* pruned and the collector is not invoked.                                *)
(***************************************************************************)
C10_UnreadableSessionFatal ==
    (Evicted /\ SessionSeen.kind \in {"malformed", "nofield"}) =>
        /\ pc = "aborted"
        /\ error = "session"
        /\ steps = <<"chdir", "evict">>
        /\ session = atLaunch.session
        /\ files = atLaunch.files
        /\ invocations = 0

C10_Witness ==
    /\ pc = "aborted"
    /\ error = "session"
    /\ SessionSeen.kind = "nofield"
    /\ session.kind = "nofield"

====
